---- MODULE Spec2Model ----
(***************************************************************************)
(* COCO-2017 zoo dataset: the two entry points of __init__.py,             *)
(* download_and_prepare and load_dataset, as a state machine over the      *)
(* dataset directory and the caller's dataset.                             *)
(*                                                                         *)
(* The two collaborators, fiftyone.utils.coco.download_coco_dataset_split  *)
(* and Dataset.add_dir, are not part of __init__.py.  They are modelled    *)
(* from their documented contract (the docstrings of __init__.py and the   *)
(* specification, sections 3 and 6) as environment actions DL_* and AD_*.  *)
(*                                                                         *)
(* An optional Python value is a set: None is {} and a value v is {v}.     *)
(* A path is the sequence of its components.  The filesystem is reliable:  *)
(* a removal that is attempted on an existing directory removes it.  A     *)
(* split directory that exists holds the split's images (Images); which    *)
(* of them a partial download staged is not tracked.                       *)
(***************************************************************************)
EXTENDS Integers, Sequences, FiniteSets

\* ------------------------------------------------------------- bounds
\* Largest max_samples a caller passes.
MaxN == 1
\* Largest number of records the caller's dataset holds.
MaxRecords == 2

\* ------------------------------------------------------ Python values
None == {}
Some(v) == {v}
TheVal(o) == CHOOSE v \in o : TRUE

Range(s) == {s[i] : i \in 1..Len(s)}
Min(a, b) == IF a <= b THEN a ELSE b
Take(s, n) == SubSeq(s, 1, Min(n, Len(s)))

\* ----------------------------------------------------- the input sets
DatasetDir == <<"ds">>
ValidSplits == {"train", "validation", "test"}
SplitArgs == {None} \cup {Some(s) : s \in ValidSplits}
LabelTypeArgs == {None, Some(<<"segmentations">>)}
ClassArgs == {None, Some(<<"cat", "dog">>)}
ImageIdArgs == {None, Some(<<2>>)}
NumWorkerArgs == {None, Some(4)}
SeedArgs == {None, Some(51)}
MaxSampleArgs == {None} \cup {Some(n) : n \in 0..MaxN}

\* The images of a split and the classes each one shows.
Images == {1, 2}
ImageClasses == [i \in Images |-> IF i = 1 THEN {"cat", "dog"} ELSE {"dog"}]
AllClasses == <<"cat", "dog", "person">>

DownloaderErrors == {"ConnectionError", "ValueError"}
ImportErrors == {"OSError", "ValueError"}

\* The keyword defaults of the two signatures.
DownloadDefaults ==
  [dataset_dir |-> DatasetDir, split |-> None, label_types |-> None,
   classes |-> None, image_ids |-> None, num_workers |-> None,
   shuffle |-> FALSE, seed |-> None, max_samples |-> None]

DownloadArgs ==
  [dataset_dir : {DatasetDir}, split : SplitArgs, label_types : LabelTypeArgs,
   classes : ClassArgs, image_ids : ImageIdArgs, num_workers : NumWorkerArgs,
   shuffle : BOOLEAN, seed : SeedArgs, max_samples : MaxSampleArgs]

LoadArgs ==
  [dataset_dir : {DatasetDir}, split : SplitArgs, label_types : LabelTypeArgs,
   classes : ClassArgs, image_ids : ImageIdArgs,
   shuffle : BOOLEAN, seed : SeedArgs, max_samples : MaxSampleArgs]

VARIABLES
  fs,        \* the directories that exist
  dataset,   \* the caller's dataset: its records, in insertion order
  pc,        \* where the current call is
  op,        \* the entry point of the current (or last) call
  args,      \* the caller's arguments of that call
  invoked,   \* the collaborator invocations of that call, in order
  ret,       \* what the collaborator gave back: a value or an error
  selected,  \* the images the collaborator selected in that call
  before,    \* the caller's dataset when that call began
  prev,      \* when this call repeats the previous one: what that one did
  outcome,   \* how that call ended
  scratchHist \* the scratch directory in that call: there before it, made in it

vars == <<fs, dataset, pc, op, args, invoked, ret, selected, before, prev, outcome, scratchHist>>

NoResult == [kind |-> "none", err |-> "", val |-> <<>>]
Returned(v) == [kind |-> "return", err |-> "", val |-> v]
Raised(e) == [kind |-> "raise", err |-> e, val |-> <<>>]
NoScratchHist == [before |-> FALSE, made |-> FALSE]

\* --------------------------------------------------------- filesystem
\* os.path.join(a, b): a TypeError when b is None.
JoinRaises(comp) == comp = None
Join(dir, comp) == Append(dir, TheVal(comp))

IsPrefix(p, q) == Len(p) <= Len(q) /\ SubSeq(q, 1, Len(p)) = p

\* shutil.rmtree(path, ignore_errors): the tree at path is gone afterwards.
Rmtree(files, path) == {q \in files : ~IsPrefix(path, q)}
RmtreeRaises(files, path, ignore_errors) == ~ignore_errors /\ path \notin files

\* ------------------------------------------------- download_and_prepare
\* The split the paths are built from: the argument as given.
EffectiveSplitDefaulted(a) == IF a.split = None THEN Some("train") ELSE a.split
EffectiveSplit(a) == a.split

PathsRaise(a) == JoinRaises(EffectiveSplit(a))
SplitDir(a) == Join(a.dataset_dir, EffectiveSplit(a))
RawDir(a) == Join(a.dataset_dir, Some("raw"))
ScratchDir(a) == Join(a.dataset_dir, Some("tmp-download"))

\* The arguments of fouc.download_coco_dataset_split(...).
DownloadCallArgsNoMax(a) ==
  [dataset_dir |-> SplitDir(a), split |-> a.split, year |-> "2017",
   label_types |-> a.label_types, classes |-> a.classes,
   image_ids |-> a.image_ids, num_workers |-> a.num_workers,
   shuffle |-> a.shuffle, seed |-> a.seed, max_samples |-> None,
   raw_dir |-> RawDir(a), scratch_dir |-> ScratchDir(a)]
DownloadCallArgsNoSeed(a) ==
  [dataset_dir |-> SplitDir(a), split |-> a.split, year |-> "2017",
   label_types |-> a.label_types, classes |-> a.classes,
   image_ids |-> a.image_ids, num_workers |-> a.num_workers,
   shuffle |-> a.shuffle, seed |-> None, max_samples |-> a.max_samples,
   raw_dir |-> RawDir(a), scratch_dir |-> ScratchDir(a)]
DownloadCallArgsYear(a) ==
  [dataset_dir |-> SplitDir(a), split |-> a.split, year |-> "2014",
   label_types |-> a.label_types, classes |-> a.classes,
   image_ids |-> a.image_ids, num_workers |-> a.num_workers,
   shuffle |-> a.shuffle, seed |-> a.seed, max_samples |-> a.max_samples,
   raw_dir |-> RawDir(a), scratch_dir |-> ScratchDir(a)]
DownloadCallArgs(a) ==
  [dataset_dir |-> SplitDir(a), split |-> a.split, year |-> "2017",
   label_types |-> a.label_types, classes |-> a.classes,
   image_ids |-> a.image_ids, num_workers |-> a.num_workers,
   shuffle |-> a.shuffle, seed |-> a.seed, max_samples |-> a.max_samples,
   raw_dir |-> RawDir(a), scratch_dir |-> ScratchDir(a)]

\* An error of the downloader leaves the function as it is: no except clause.
PropagateTranslated(e) == "RuntimeError"
Propagate(e) == e

\* shutil.rmtree(scratch_dir, ignore_errors=True)
CleanupTargetDatasetDir(a) == a.dataset_dir
CleanupTarget(a) == ScratchDir(a)
IgnoreErrorsOff == FALSE
IgnoreErrors == TRUE

\* return dataset_type, num_samples, classes
ReturnValueCallerClasses(r, a) ==
  <<None, r[1], IF a.classes = None THEN <<>> ELSE TheVal(a.classes)>>
ReturnValue(r, a) == <<None, r[1], r[2]>>

\* What a call that repeats the previous one remembers of it.
PrevOf(repeat) ==
  IF repeat THEN Some([sel |-> selected, base |-> Len(before)]) ELSE None

CanRepeat(name, a) ==
  pc = "done" /\ op = name /\ a = args /\ outcome.kind = "return"

\* Lines 68-86: the paths, then the downloader is invoked.
DP_Call(a, repeat) ==
  /\ IF repeat THEN CanRepeat("download_and_prepare", a) ELSE pc = "idle"
  /\ op' = "download_and_prepare"
  /\ args' = a
  /\ before' = dataset
  /\ prev' = PrevOf(repeat)
  /\ ret' = NoResult
  /\ selected' = <<>>
  /\ IF PathsRaise(a)
       THEN /\ pc' = "done"
            /\ invoked' = <<>>
            /\ outcome' = Raised("TypeError")
       ELSE /\ pc' = "in_download"
            /\ invoked' = <<DownloadCallArgs(a)>>
            /\ outcome' = NoResult
  /\ scratchHist' = [before |-> ScratchDir(a) \in fs, made |-> FALSE]
  /\ UNCHANGED <<fs, dataset>>

\* Lines 88-90: the scratch directory is removed and the triple returned.
DP_Finish ==
  /\ pc = "dl_returned"
  /\ pc' = "done"
  /\ IF RmtreeRaises(fs, CleanupTarget(args), IgnoreErrors)
       THEN /\ fs' = fs
            /\ outcome' = Raised("FileNotFoundError")
       ELSE /\ fs' = Rmtree(fs, CleanupTarget(args))
            /\ outcome' = Returned(ReturnValue(ret.val, args))
  /\ UNCHANGED <<dataset, op, args, invoked, ret, selected, before, prev, scratchHist>>

\* ------------------------------------------- the selection policy
\* (docstring of max_samples, classes, image_ids, shuffle and seed)
RECURSIVE Sorted(_)
Sorted(S) ==
  IF S = {} THEN <<>>
  ELSE LET m == CHOOSE x \in S : \A y \in S : x <= y
       IN <<m>> \o Sorted(S \ {m})

RECURSIVE Perms(_)
Perms(S) ==
  IF S = {} THEN {<<>>}
  ELSE UNION {{<<x>> \o p : p \in Perms(S \ {x})} : x \in S}

\* The order a seed gives: one fixed permutation per seed and length.
SeededOrder(s, seed) ==
  [i \in 1..Len(s) |-> s[((i - 1 + seed) % Len(s)) + 1]]

\* The orders in which the images of S may be taken.
Orders(S, shuffle, seed) ==
  IF ~shuffle THEN {Sorted(S)}
  ELSE IF seed = None THEN Perms(S)
  ELSE {SeededOrder(Sorted(S), TheVal(seed))}

Candidates(c) ==
  IF c.image_ids = None THEN Images ELSE Images \cap Range(TheVal(c.image_ids))

\* Images that show every requested class, then those that show some of them.
WithAll(c) ==
  IF c.classes = None THEN Candidates(c)
  ELSE {i \in Candidates(c) : Range(TheVal(c.classes)) \subseteq ImageClasses[i]}
WithAny(c) ==
  IF c.classes = None THEN {}
  ELSE {i \in Candidates(c) : Range(TheVal(c.classes)) \cap ImageClasses[i] # {}} \ WithAll(c)

Truncate(s, max_samples) ==
  IF max_samples = None THEN s ELSE Take(s, TheVal(max_samples))

\* Every selection the policy allows for the invocation c.
Selections(c) ==
  {Truncate(x \o y, c.max_samples) :
     x \in Orders(WithAll(c), c.shuffle, c.seed),
     y \in Orders(WithAny(c), c.shuffle, c.seed)}

\* ---------------------------------------------- the external downloader
\* It creates the directories it was given, as it goes.
DL_MakeDir(d) ==
  /\ pc = "in_download"
  /\ d \in {invoked[1].dataset_dir, invoked[1].raw_dir, invoked[1].scratch_dir}
  /\ d \notin fs
  /\ fs' = fs \cup {d}
  /\ scratchHist' = [scratchHist EXCEPT !.made = @ \/ d = invoked[1].scratch_dir]
  /\ UNCHANGED <<dataset, pc, op, args, invoked, ret, selected, before, prev, outcome>>

\* It fails: a network error, an unsupported value, a malformed id file.  No
\* handler encloses the call (lines 73-86), so the error ends the call at once.
DL_Fail(e) ==
  /\ pc = "in_download"
  /\ pc' = "done"
  /\ ret' = Raised(e)
  /\ outcome' = Raised(Propagate(e))
  /\ UNCHANGED <<fs, dataset, op, args, invoked, selected, before, prev, scratchHist>>

\* It returns (num_samples, classes, did_download) with the split directory made.
DL_Return(sel) ==
  /\ pc = "in_download"
  /\ invoked[1].dataset_dir \in fs
  /\ sel \in Selections(invoked[1])
  /\ pc' = "dl_returned"
  /\ selected' = sel
  /\ ret' = Returned(<<Len(sel), AllClasses, Len(sel) > 0>>)
  /\ UNCHANGED <<fs, dataset, op, args, invoked, before, prev, outcome, scratchHist>>

\* ---------------------------------------------------------- load_dataset
LoadPathsRaise(a) == JoinRaises(EffectiveSplit(a))
LoadSplitDir(a) == Join(a.dataset_dir, EffectiveSplit(a))

\* The dataset add_dir is called on: the caller's.
AddDirReceiverFresh == "fresh"
AddDirReceiver == "dataset"

\* The arguments of dataset.add_dir(...), and the dataset it is called on.
LoadCallArgs(a) ==
  [receiver |-> AddDirReceiver,
   dataset_dir |-> LoadSplitDir(a), dataset_type |-> "COCODetectionDataset",
   label_types |-> a.label_types, classes |-> a.classes,
   image_ids |-> a.image_ids, shuffle |-> a.shuffle, seed |-> a.seed,
   max_samples |-> a.max_samples]

\* Lines 137-147: the path, then add_dir is invoked on the dataset.
LD_Call(a, repeat) ==
  /\ IF repeat THEN CanRepeat("load_dataset", a) ELSE pc = "idle"
  /\ op' = "load_dataset"
  /\ args' = a
  /\ before' = dataset
  /\ prev' = PrevOf(repeat)
  /\ ret' = NoResult
  /\ selected' = <<>>
  /\ IF LoadPathsRaise(a)
       THEN /\ pc' = "done"
            /\ invoked' = <<>>
            /\ outcome' = Raised("TypeError")
       ELSE /\ pc' = "in_add_dir"
            /\ invoked' = <<LoadCallArgs(a)>>
            /\ outcome' = NoResult
  /\ scratchHist' = NoScratchHist
  /\ UNCHANGED <<fs, dataset>>

\* ------------------------------------------------ the external importer
\* It fails: a missing directory, a malformed annotation file.  add_dir is
\* the last statement of load_dataset: its error ends the call.
AD_Fail(e) ==
  /\ pc = "in_add_dir"
  /\ pc' = "done"
  /\ ret' = Raised(e)
  /\ outcome' = Raised(Propagate(e))
  /\ UNCHANGED <<fs, dataset, op, args, invoked, selected, before, prev, scratchHist>>

\* It appends one record per selected image of the directory to its dataset,
\* and load_dataset returns.
AD_Return(sel) ==
  /\ pc = "in_add_dir"
  /\ invoked[1].dataset_dir \in fs
  /\ sel \in Selections(invoked[1])
  /\ Len(dataset) + Len(sel) <= MaxRecords
  /\ pc' = "done"
  /\ selected' = sel
  /\ ret' = Returned(<<>>)
  /\ outcome' = Returned(<<>>)
  /\ dataset' = IF invoked[1].receiver = "dataset" THEN dataset \o sel ELSE dataset
  /\ UNCHANGED <<fs, op, args, invoked, before, prev, scratchHist>>

\* ------------------------------------------------------------ the caller
\* The caller has taken the result of the call.
Forget ==
  /\ pc = "done"
  /\ pc' = "idle"
  /\ op' = "none"
  /\ args' = DownloadDefaults
  /\ invoked' = <<>>
  /\ ret' = NoResult
  /\ selected' = <<>>
  /\ before' = <<>>
  /\ prev' = None
  /\ outcome' = NoResult
  /\ scratchHist' = NoScratchHist
  /\ UNCHANGED <<fs, dataset>>

\* ------------------------------------------------------ specification
Init ==
  /\ fs \in {{}, {ScratchDir(DownloadDefaults)}}
  /\ dataset = <<>>
  /\ pc = "idle"
  /\ op = "none"
  /\ args = DownloadDefaults
  /\ invoked = <<>>
  /\ ret = NoResult
  /\ selected = <<>>
  /\ before = <<>>
  /\ prev = None
  /\ outcome = NoResult
  /\ scratchHist = NoScratchHist

\* download_and_prepare neither reads nor writes the dataset: the caller stages
\* the splits first and imports them afterwards.
StagingPhase == dataset = <<>>

Directories ==
  {Join(DatasetDir, Some(n)) : n \in ValidSplits \cup {"raw", "tmp-download"}}

Next ==
  \/ pc = "idle" /\ StagingPhase /\ \E a \in DownloadArgs : DP_Call(a, FALSE)
  \/ pc = "done" /\ op = "download_and_prepare" /\ DP_Call(args, TRUE)
  \/ DP_Finish
  \/ pc = "idle" /\ \E a \in LoadArgs : LD_Call(a, FALSE)
  \/ pc = "done" /\ op = "load_dataset" /\ LD_Call(args, TRUE)
  \/ \E d \in Directories : DL_MakeDir(d)
  \/ \E e \in DownloaderErrors : DL_Fail(e)
  \/ pc = "in_download" /\ \E sel \in Selections(invoked[1]) : DL_Return(sel)
  \/ \E e \in ImportErrors : AD_Fail(e)
  \/ pc = "in_add_dir" /\ \E sel \in Selections(invoked[1]) : AD_Return(sel)
  \/ Forget

Spec == Init /\ [][Next]_vars

\* ------------------------------------------------------------ the claims
IsDP == op = "download_and_prepare"
IsLD == op = "load_dataset"
ReturnedNormally == pc = "done" /\ outcome.kind = "return"
TheSplitDir == Join(args.dataset_dir, args.split)
TheRawDir == Join(args.dataset_dir, Some("raw"))
TheScratchDir == Join(args.dataset_dir, Some("tmp-download"))
SplitDirs == {Join(DatasetDir, Some(n)) : n \in ValidSplits}

\* C1: when download_and_prepare returns normally, dataset_dir/split exists
\* and dataset_dir/tmp-download does not, whether or not the scratch directory
\* was there before the call; and once the downloader has returned the call
\* returns normally, also when the scratch directory is absent at cleanup.
C1_StagedAndCleaned ==
  /\ (IsDP /\ ReturnedNormally) => (TheSplitDir \in fs /\ TheScratchDir \notin fs)
  /\ (IsDP /\ pc = "done" /\ ret.kind = "return") => outcome.kind = "return"

\* A normal return of a call in which the scratch directory never existed.
C1_Witness ==
  /\ IsDP /\ ReturnedNormally
  /\ ~scratchHist.before /\ ~scratchHist.made
  /\ args.split = Some("validation")

\* C2: once a failure of the downloader that had made the scratch directory
\* has reached the caller, the scratch directory no longer exists.
C2_ScratchRemovedOnFailure ==
  (IsDP /\ pc = "done" /\ ret.kind = "raise" /\ scratchHist.made)
    => TheScratchDir \notin fs

\* C3 as stated: every call invokes its collaborator exactly once, and a
\* failure of that invocation is the error the caller receives.
C3_ExactlyOnce ==
  pc = "done" =>
    /\ Len(invoked) = 1
    /\ ret.kind = "raise" => (outcome.kind = "raise" /\ outcome.err = ret.err)

\* C3 as amended: a call never invokes its collaborator more than once; a
\* call that supplies split invokes it exactly once, one that does not
\* invokes it not at all; a failure of the invocation is the error the caller
\* receives, and never a normal return.
C3_AtMostOnce ==
  /\ Len(invoked) <= 1
  /\ pc = "done" => (Len(invoked) = 1 <=> args.split # None)
  /\ (pc = "done" /\ ret.kind = "raise") =>
       (outcome.kind = "raise" /\ outcome.err = ret.err)

\* A call whose collaborator failed, ended.
C3_Witness ==
  /\ pc = "done" /\ IsDP /\ Len(invoked) = 1
  /\ ret.kind = "raise" /\ ret.err = "ConnectionError"
  /\ outcome.err = "ConnectionError"

\* C4: a normal return of download_and_prepare is (None, num_samples,
\* classes) with num_samples and classes the downloader's first and second
\* components: three components, not the downloader's third, not the
\* caller's classes argument.
C4_ReturnTriple ==
  (IsDP /\ ReturnedNormally) =>
    /\ Len(outcome.val) = 3
    /\ outcome.val[1] = None
    /\ outcome.val[2] = ret.val[1]
    /\ outcome.val[3] = ret.val[2]

\* A normal return of a call that named classes and staged an image.
C4_Witness ==
  /\ IsDP /\ ReturnedNormally
  /\ args.classes # None
  /\ ret.val[1] = 1
  /\ TheVal(args.classes) # ret.val[2]

\* C5: a normal return of download_and_prepare called with max_samples = N
\* gives 0 <= num_samples <= N.
C5_AtMostMaxSamples ==
  (IsDP /\ ReturnedNormally /\ args.max_samples # None) =>
    (0 <= outcome.val[2] /\ outcome.val[2] <= TheVal(args.max_samples))

\* A normal return where max_samples cut the two images of the split to one.
C5_Witness ==
  /\ IsDP /\ ReturnedNormally
  /\ args.max_samples = Some(1)
  /\ args.classes = None /\ args.image_ids = None
  /\ outcome.val[2] = 1

\* C6: load_dataset only appends: the records the dataset held when a call
\* began are still its first records, a call that returns has added exactly
\* the records it imported, and after the same call made twice the dataset
\* holds what it held before the first plus what each of the two imported.
C6_AppendOnly ==
  /\ op # "none" => IsPrefix(before, dataset)
  /\ (IsLD /\ ReturnedNormally) => dataset = before \o selected
  /\ (IsLD /\ ReturnedNormally /\ prev # None) =>
       Len(dataset) = TheVal(prev).base + Len(TheVal(prev).sel) + Len(selected)

\* The same import made twice: the image is in the dataset twice.
C6_Witness ==
  /\ IsLD /\ ReturnedNormally /\ prev # None
  /\ selected = <<1>> /\ TheVal(prev).sel = <<1>>
  /\ dataset = <<1, 1>>

\* C7: a call without split ends in an error in its first step, with no
\* collaborator invoked and nothing changed on disk or in the dataset.
C7_SplitRequired ==
  [][(pc = "idle" /\ pc' # "idle" /\ args'.split = None) =>
       /\ pc' = "done"
       /\ outcome'.kind = "raise"
       /\ invoked' = <<>>
       /\ fs' = fs
       /\ dataset' = dataset]_vars

\* A load_dataset call without split, ended in the TypeError of the join.
C7_Witness ==
  /\ IsLD /\ pc = "done" /\ args.split = None
  /\ outcome.kind = "raise" /\ outcome.err = "TypeError"
  /\ fs # {}

\* C8: a call that repeats the previous one, with shuffle on and a seed,
\* selects the same set of images as the previous one did.
C8_SeededDeterminism ==
  (prev # None /\ ret.kind = "return" /\ args.shuffle /\ args.seed # None) =>
    Range(selected) = Range(TheVal(prev).sel)

\* A seeded shuffled download made twice, each cut to one of two images.
C8_Witness ==
  /\ IsDP /\ ReturnedNormally /\ prev # None
  /\ args.shuffle /\ args.seed # None
  /\ args.max_samples = Some(1) /\ args.classes = None /\ args.image_ids = None
  /\ Cardinality(Range(selected)) = 1

\* C9: the downloader is called with dataset_dir/split, the split, "2017",
\* dataset_dir/raw, dataset_dir/tmp-download and the caller's label_types,
\* classes, image_ids, num_workers, shuffle, seed, max_samples; the importer
\* with dataset_dir/split, the COCO detection format and the caller's
\* label_types, classes, image_ids, shuffle, seed, max_samples: no num_workers.
C9_ArgumentsForwarded ==
  /\ (IsDP /\ invoked # <<>>) =>
       /\ DOMAIN invoked[1] =
            {"dataset_dir", "split", "year", "label_types", "classes", "image_ids",
             "num_workers", "shuffle", "seed", "max_samples", "raw_dir", "scratch_dir"}
       /\ invoked[1].dataset_dir = TheSplitDir
       /\ invoked[1].split = args.split
       /\ invoked[1].year = "2017"
       /\ invoked[1].raw_dir = TheRawDir
       /\ invoked[1].scratch_dir = TheScratchDir
       /\ invoked[1].label_types = args.label_types
       /\ invoked[1].classes = args.classes
       /\ invoked[1].image_ids = args.image_ids
       /\ invoked[1].num_workers = args.num_workers
       /\ invoked[1].shuffle = args.shuffle
       /\ invoked[1].seed = args.seed
       /\ invoked[1].max_samples = args.max_samples
  /\ (IsLD /\ invoked # <<>>) =>
       /\ DOMAIN invoked[1] =
            {"receiver", "dataset_dir", "dataset_type", "label_types", "classes",
             "image_ids", "shuffle", "seed", "max_samples"}
       /\ invoked[1].dataset_dir = TheSplitDir
       /\ invoked[1].dataset_type = "COCODetectionDataset"
       /\ invoked[1].label_types = args.label_types
       /\ invoked[1].classes = args.classes
       /\ invoked[1].image_ids = args.image_ids
       /\ invoked[1].shuffle = args.shuffle
       /\ invoked[1].seed = args.seed
       /\ invoked[1].max_samples = args.max_samples

\* An import that asks for segmentations, with every argument given.
C9_Witness ==
  /\ IsLD /\ invoked # <<>>
  /\ args.label_types = Some(<<"segmentations">>)
  /\ args.classes # None /\ args.image_ids # None
  /\ args.shuffle /\ args.seed # None /\ args.max_samples # None
  /\ invoked[1].dataset_type = "COCODetectionDataset"

\* C10: a step removes no directory but dataset_dir/tmp-download, and removes
\* that one only once the downloader of the call has returned; so the staged
\* split directories and dataset_dir/raw stay.
C10_OnlyScratchDeleted ==
  [][\A d \in fs \ fs' : d = TheScratchDir /\ IsDP /\ pc = "dl_returned"]_vars

\* The third split staged: the two staged before and raw are still there,
\* and the scratch directory this call made is gone.
C10_Witness ==
  /\ IsDP /\ ReturnedNormally
  /\ scratchHist.made
  /\ SplitDirs \subseteq fs
  /\ TheRawDir \in fs
  /\ TheScratchDir \notin fs

====
